---- MODULE Spec2Model ----
(***************************************************************************)
(* Soledad encrypted sync: the document envelope codec and the sync        *)
(* exchange of leap_backend.py, and the encrypter / decrypter pools of     *)
(* leap.soledad.client.encdecpool exercised by test_encdecpool.py.         *)
(***************************************************************************)
EXTENDS Integers, Sequences, FiniteSets, TLC

VARIABLES
    \* decrypt_doc_json applied to one input
    codecIn,        \* [doc_id, doc_json] the arguments
    codecOut,       \* the outcome, NoCall before the call
    \* encrypt_doc_json applied to a document body, decrypt_doc_json to its
    \* result
    codecPlain,     \* the doc_json argument of encrypt_doc_json
    codecEnv,       \* the outcome of encrypt_doc_json, NoCall before the call
    codecRound,     \* the outcome of decrypt_doc_json on the envelope
    \* SyncDecrypterPool
    dRunning,       \* pool.running
    dExpected,      \* expectedCount of the session
    dArrived,       \* documents given to insert_received_doc, in arrival order
    dPending,       \* sequence indices scheduled for decryption
    dDone,          \* pending-delivery set: index -> decrypted tuple
    dNext,          \* next expected index
    dDelivered,     \* invocations of insert_doc_cb, in order
    dResolved,      \* how many times the completion signal was resolved
    dCompleted,     \* sequence indices in the order the workers finished them
    dSessions,      \* sessions started so far
    dFailed,        \* indices whose decryption failure sits in the
                    \* pending-delivery set as a typed failure
    dDropped,       \* indices whose decryption failed and were dropped
    dErrors,        \* typed failures handed to the caller, in order
    \* SyncEncrypterPool
    eRunning,       \* pool.running
    eQueue,         \* pending-encryption entries, oldest first
    eStaged,        \* staged map: (doc_id, rev) -> envelope or Absent
    eEnqueued,      \* keys ever given to enqueue_doc_for_encryption
    eProcessed,     \* keys the worker has staged a ciphertext for
    eGot,           \* per key, what the last get_encrypted_doc since its
                    \* last enqueue returned
    eWork,          \* the pending entry the worker is encrypting, or NoWork
    eLast,          \* per key, the plaintext it was last enqueued with
    eRaced,         \* per key, whether it was enqueued with another
                    \* plaintext while an entry for it was still pending
    \* LeapSyncTarget.sync_exchange
    pc,             \* where the exchange stands
    docs_by_generations, \* the local documents to send: (doc, gen, trans_id)
    ensure,         \* ensure_callback is not None
    idx,            \* position of the sending loop in docs_by_generations
    entries,        \* the list of pieces prepared for sending
    encrypted,      \* doc ids encrypt_doc_json was called for, in order
    size,           \* the running content length
    conn,           \* the connection: content-length header and pieces sent
    parts,          \* the lines of the response body
    pos,            \* position of the parsing loop in data = parts[1:-1]
    comma,          \* whether the last data line ended with a comma
    res,            \* the parsed metadata line
    returned,       \* invocations of return_doc_cb, in order
    ensured,        \* invocations of ensure_callback, in order
    result          \* outcome of the exchange

codecVars == <<codecIn, codecOut, codecPlain, codecEnv, codecRound>>
decVars == <<dRunning, dExpected, dArrived, dPending, dDone, dNext,
             dDelivered, dResolved, dCompleted, dSessions, dFailed, dDropped,
             dErrors>>
encVars == <<eRunning, eQueue, eStaged, eEnqueued, eProcessed, eGot, eWork,
             eLast, eRaced>>
syncVars == <<pc, docs_by_generations, ensure, idx, entries, encrypted, size,
              conn,
              parts, pos, comma, res, returned, ensured, result>>
vars == <<codecVars, decVars, encVars, syncVars>>

----------------------------------------------------------------------------
\* Bounds of the model.
MaxDocs == 3
MaxSessions == 2
MaxQueue == 2
MaxLines == 4
MaxEntries == 2

----------------------------------------------------------------------------
\* Values.

DocIds == {"d1", "d2"}

\* EncryptionSchemes
NONE == "none"
SYMKEY == "symkey"
PUBKEY == "pubkey"
Schemes == {NONE, SYMKEY, PUBKEY, "rot13"}

\* Plaintext JSON bodies of documents.
Plain(n) == [t |-> "plain", p |-> n]
Plains == {Plain(1), Plain(2)}
Garbled == [t |-> "garbled"]
NoVal == [t |-> "noval"]

\* crypto.passphrase_hash
passphrase_hash(doc_id) == [h |-> doc_id]

\* A blob the detector does not recognise.
Junk == [k |-> "junk"]

\* A body on which the primitive fails silently.
Unencryptable == [t |-> "plain", p |-> 0]

\* crypto.encrypt_sym: the ciphertext remembers plaintext and key
encrypt_sym(data, key) ==
    IF data = Unencryptable THEN Junk
    ELSE [k |-> "ct", p |-> data, key |-> key]

\* crypto.is_encrypted_sym: the detector of the primitive's own ciphertext
is_encrypted_sym(ct) == ct.k = "ct"

\* crypto.decrypt_sym: inverts encrypt_sym under the same key only
decrypt_sym(ct, key) == IF ct.key = key THEN ct.p ELSE Garbled

----------------------------------------------------------------------------
\* Document envelope codec.

\* Outcome of a call: the exception raised ("none" if it returned), the value
\* returned, and the number of calls of crypto.decrypt_sym it made.
Returned(v, n) == [exc |-> "none", val |-> v, sym |-> n]
Raised(e, n) == [exc |-> e, val |-> NoVal, sym |-> n]
NoCall == [exc |-> "nocall", val |-> NoVal, sym |-> 0]

\* json.dumps of the two-key dictionary of an envelope
Envelope(ct, scheme) ==
    [form |-> "dict", keys |-> {"_encrypted_json", "_encryption_scheme"},
     ct |-> ct, scheme |-> scheme]

\* Mutant: the detector check is inverted, so every encryption is refused.
encrypt_doc_json_refusing(doc_id, doc_json) ==
    LET ciphertext == encrypt_sym(doc_json, passphrase_hash(doc_id))
    IN  IF is_encrypted_sym(ciphertext)
        THEN Raised("DocumentNotEncrypted", 0)
        ELSE Returned(Envelope(ciphertext, SYMKEY), 0)

\* Mutant: the envelope is tagged with EncryptionSchemes.NONE.
encrypt_doc_json_untagged(doc_id, doc_json) ==
    LET ciphertext == encrypt_sym(doc_json, passphrase_hash(doc_id))
    IN  IF ~is_encrypted_sym(ciphertext)
        THEN Raised("DocumentNotEncrypted", 0)
        ELSE Returned(Envelope(ciphertext, NONE), 0)

encrypt_doc_json(doc_id, doc_json) ==
    LET ciphertext == encrypt_sym(doc_json, passphrase_hash(doc_id))
    IN  IF ~is_encrypted_sym(ciphertext)
        THEN Raised("DocumentNotEncrypted", 0)
        ELSE Returned(Envelope(ciphertext, SYMKEY), 0)

\* The name the else branch raises: the module defines the class
\* UnknownEncryptionSchemes and no UnknownEncryptionScheme, so evaluating
\* the raise statement fails with NameError.
UnknownSchemeRaise == "NameError"

decrypt_doc_json(doc_id, doc_json) ==
    IF doc_id = "" \/ doc_json.form = "empty" THEN Raised("AssertionError", 0)
    ELSE IF doc_json.form = "invalid" THEN Raised("ValueError", 0)
    ELSE IF doc_json.form = "array" THEN Raised("TypeError", 0)
    ELSE IF "_encrypted_json" \notin doc_json.keys THEN Raised("KeyError", 0)
    ELSE IF "_encryption_scheme" \notin doc_json.keys THEN Raised("KeyError", 0)
    ELSE IF doc_json.scheme = SYMKEY
         THEN IF ~is_encrypted_sym(doc_json.ct)
              THEN Raised("DocumentNotEncrypted", 0)
              ELSE Returned(decrypt_sym(doc_json.ct, passphrase_hash(doc_id)), 1)
         ELSE Raised(UnknownSchemeRaise, 0)

\* The inputs decrypt_doc_json is applied to.
EnvelopeInputs ==
    {[form |-> "empty", keys |-> {}, ct |-> Junk, scheme |-> NONE],
     [form |-> "invalid", keys |-> {}, ct |-> Junk, scheme |-> NONE],
     [form |-> "array", keys |-> {}, ct |-> Junk, scheme |-> NONE]}
    \cup [form : {"dict"},
          keys : SUBSET {"_encrypted_json", "_encryption_scheme"},
          ct : {encrypt_sym(Plain(1), passphrase_hash("d1")), Junk},
          scheme : Schemes]

CodecInit ==
    /\ codecIn \in [doc_id : DocIds \cup {""}, doc_json : EnvelopeInputs]
    /\ codecOut = NoCall
    /\ codecPlain \in Plains
    /\ codecEnv = NoCall
    /\ codecRound = NoCall

CodecIdle ==
    /\ codecIn = [doc_id |-> "d1",
                  doc_json |-> Envelope(Junk, SYMKEY)]
    /\ codecOut = NoCall
    /\ codecPlain = Plain(1)
    /\ codecEnv = NoCall
    /\ codecRound = NoCall

Decrypt ==
    /\ codecOut = NoCall
    /\ codecOut' = decrypt_doc_json(codecIn.doc_id, codecIn.doc_json)
    /\ UNCHANGED <<codecIn, codecPlain, codecEnv, codecRound, decVars,
                   encVars, syncVars>>

\* encrypt_doc_json(crypto, doc_id, doc_json), then decrypt_doc_json on the
\* string it returned, with the same doc_id.
EncryptDecrypt ==
    /\ codecEnv = NoCall
    /\ LET env == encrypt_doc_json(codecIn.doc_id, codecPlain)
       IN  /\ codecEnv' = env
           /\ codecRound' = IF env.exc = "none"
                            THEN decrypt_doc_json(codecIn.doc_id, env.val)
                            ELSE NoCall
    /\ UNCHANGED <<codecIn, codecOut, codecPlain, decVars, encVars, syncVars>>

----------------------------------------------------------------------------
\* SyncDecrypterPool.

\* Contents a received document may carry: a tombstone, a parsed plain body,
\* or an encryption envelope.
Tomb == [form |-> "null"]
PlainContent(p) == [form |-> "plain", p |-> p]

\* The documents the wire reader hands over: (doc_id, rev, content, gen, trans_id).
ReceivedDocs ==
    {[id |-> "d1", rev |-> "r1", content |-> PlainContent(Plain(1)),
      gen |-> 1, trans_id |-> "t1"],
     [id |-> "d2", rev |-> "r2",
      content |-> Envelope(encrypt_sym(Plain(2), passphrase_hash("d2")), SYMKEY),
      gen |-> 2, trans_id |-> "t2"],
     [id |-> "d1", rev |-> "r2", content |-> Tomb,
      gen |-> 2, trans_id |-> "t1"]}

\* A received document whose envelope does not decrypt.
BadDoc ==
    [id |-> "d2", rev |-> "r3", content |-> Envelope(Junk, SYMKEY),
     gen |-> 3, trans_id |-> "t3"]

\* Content normalization: decrypt when the content carries an envelope,
\* pass through unchanged otherwise.
Normalize(doc) ==
    IF doc.content.form = "dict"
    THEN PlainContent(decrypt_doc_json(doc.id, doc.content).val)
    ELSE doc.content

\* What the insertion callback receives for a document inserted as `doc`.
DeliveredTuple(doc) ==
    [id |-> doc.id, rev |-> doc.rev, content |-> Normalize(doc),
     gen |-> doc.gen, trans_id |-> doc.trans_id]

DecIdle ==
    /\ dRunning = FALSE
    /\ dExpected = 0
    /\ dArrived = <<>>
    /\ dPending = {}
    /\ dDone = {}
    /\ dNext = 1
    /\ dDelivered = <<>>
    /\ dResolved = 0
    /\ dCompleted = <<>>
    /\ dSessions = 0
    /\ dFailed = {}
    /\ dDropped = {}
    /\ dErrors = <<>>

\* start(docs_to_process)
DStart(n) ==
    /\ ~dRunning
    /\ dSessions < MaxSessions
    /\ dRunning' = TRUE
    /\ dExpected' = n
    /\ dArrived' = <<>>
    /\ dPending' = {}
    /\ dDone' = {}
    /\ dNext' = 1
    /\ dDelivered' = <<>>
    /\ dResolved' = 0
    /\ dCompleted' = <<>>
    /\ dSessions' = dSessions + 1
    /\ dFailed' = {}
    /\ dDropped' = {}
    /\ dErrors' = <<>>
    /\ UNCHANGED <<codecVars, encVars, syncVars>>

\* insert_received_doc(doc_id, rev, content, gen, trans_id, idx), called in
\* arrival order with idx the next 1-based contiguous index.
InsertReceivedDoc(doc) ==
    /\ dRunning
    /\ Len(dArrived) < dExpected
    /\ dArrived' = Append(dArrived, doc)
    /\ dPending' = dPending \cup {Len(dArrived) + 1}
    /\ UNCHANGED <<dRunning, dExpected, dDone, dNext, dDelivered, dResolved,
                   dCompleted, dSessions, dFailed, dDropped, dErrors,
                   codecVars, encVars, syncVars>>

\* The contiguous run of completed indices starting at index `from`.
RECURSIVE RunEnd(_, _)
RunEnd(done, from) ==
    IF from \in done THEN RunEnd(done, from + 1) ELSE from

\* Mutant: the drain hands the run over in descending order.
DrainOrderDescending(from, to) == [k \in 1..(to - from) |-> to - k]

\* Delivery order of the drain: the completed indices from..to-1, ascending.
DrainOrder(from, to) == [k \in 1..(to - from) |-> from + k - 1]

\* Mutants: the signal is resolved one delivery early, or one too late.
CompleteAtEarly(expected) == expected - 1
CompleteAtLate(expected) == expected + 1

\* Number of deliveries at which the completion signal is resolved.
CompleteAt(expected) == expected

\* The decryption of a received document fails.
DecryptFails(doc) ==
    /\ doc.content.form = "dict"
    /\ decrypt_doc_json(doc.id, doc.content).exc # "none"

\* The pending-delivery set `done`, whose indices in `failed` hold a typed
\* failure, is drained from the next expected index up to the first gap:
\* documents go to the insertion callback, typed failures to the caller.
\* The completion signal is resolved once expectedCount documents have been
\* delivered.
Drain(done, failed) ==
    LET to == RunEnd(done, dNext)
        order == DrainOrder(dNext, to)
        good == SelectSeq(order, LAMBDA j : j \notin failed)
        bad == SelectSeq(order, LAMBDA j : j \in failed)
        delivered == dDelivered \o
            [k \in 1..Len(good) |-> DeliveredTuple(dArrived[good[k]])]
    IN  [done |-> {j \in done : j >= to},
         failed |-> {j \in failed : j >= to},
         next |-> to,
         delivered |-> delivered,
         errors |-> dErrors \o
            [k \in 1..Len(bad) |->
                [idx |-> bad[k],
                 exc |-> decrypt_doc_json(dArrived[bad[k]].id,
                                          dArrived[bad[k]].content).exc]],
         resolved |-> IF Len(delivered) = CompleteAt(dExpected)
                         /\ Len(dDelivered) < Len(delivered)
                      THEN dResolved + 1 ELSE dResolved]

\* A worker finishes decrypting index i: the result joins the
\* pending-delivery set, which is then drained.
WorkerDecrypted(i) ==
    /\ dRunning
    /\ i \in dPending
    /\ ~DecryptFails(dArrived[i])
    /\ LET d == Drain(dDone \cup {i}, dFailed)
       IN  /\ dPending' = dPending \ {i}
           /\ dCompleted' = Append(dCompleted, i)
           /\ dDone' = d.done
           /\ dFailed' = d.failed
           /\ dNext' = d.next
           /\ dDelivered' = d.delivered
           /\ dErrors' = d.errors
           /\ dResolved' = d.resolved
    /\ UNCHANGED <<dRunning, dExpected, dArrived, dSessions, dDropped,
                   codecVars, encVars, syncVars>>

\* The decryption of index i fails in a worker.  The worker loop goes on;
\* the entry is either logged and dropped, or its typed failure joins the
\* pending-delivery set in its place, which is then drained.
WorkerFailed(i, policy) ==
    /\ dRunning
    /\ i \in dPending
    /\ DecryptFails(dArrived[i])
    /\ dPending' = dPending \ {i}
    /\ dCompleted' = Append(dCompleted, i)
    /\ IF policy = "drop"
       THEN /\ dDropped' = dDropped \cup {i}
            /\ UNCHANGED <<dDone, dFailed, dNext, dDelivered, dErrors,
                           dResolved>>
       ELSE LET d == Drain(dDone \cup {i}, dFailed \cup {i})
            IN  /\ dDone' = d.done
                /\ dFailed' = d.failed
                /\ dNext' = d.next
                /\ dDelivered' = d.delivered
                /\ dErrors' = d.errors
                /\ dResolved' = d.resolved
                /\ UNCHANGED dDropped
    /\ UNCHANGED <<dRunning, dExpected, dArrived, dSessions, codecVars,
                   encVars, syncVars>>

\* stop(): halts the workers; the session is abandoned.
DStop ==
    /\ dRunning
    /\ dRunning' = FALSE
    /\ UNCHANGED <<dExpected, dArrived, dPending, dDone, dNext, dDelivered,
                   dResolved, dCompleted, dSessions, dFailed, dDropped,
                   dErrors, codecVars, encVars, syncVars>>

----------------------------------------------------------------------------
\* SyncEncrypterPool.

Keys == {<<"d1", "r1">>, <<"d1", "r2">>}
Absent == [form |-> "absent"]
NoWork == [key |-> <<>>, plain |-> NoVal]

EncIdle ==
    /\ eRunning = FALSE
    /\ eQueue = <<>>
    /\ eStaged = [k \in Keys |-> Absent]
    /\ eEnqueued = {}
    /\ eProcessed = {}
    /\ eGot = [k \in Keys |-> Absent]
    /\ eWork = NoWork
    /\ eLast = [k \in Keys |-> NoVal]
    /\ eRaced = [k \in Keys |-> FALSE]

\* start(): begins the worker loop.
EStart ==
    /\ ~eRunning
    /\ eRunning' = TRUE
    /\ UNCHANGED <<eQueue, eStaged, eEnqueued, eProcessed, eGot, eWork, eLast,
                   eRaced, codecVars, decVars, syncVars>>

\* enqueue_doc_for_encryption(doc), doc not a tombstone: appends a pending
\* entry and returns.
EnqueueForEncryption(key, plain) ==
    /\ Len(eQueue) < MaxQueue
    /\ eQueue' = Append(eQueue, [key |-> key, plain |-> plain])
    /\ eEnqueued' = eEnqueued \cup {key}
    /\ eGot' = [eGot EXCEPT ![key] = Absent]
    /\ eLast' = [eLast EXCEPT ![key] = plain]
    /\ eRaced' = [eRaced EXCEPT ![key] =
                    @ \/ \E n \in 1..Len(eQueue) :
                            /\ eQueue[n].key = key
                            /\ eQueue[n].plain # plain]
    /\ UNCHANGED <<eRunning, eStaged, eProcessed, eWork, codecVars, decVars,
                   syncVars>>

\* Mutant: the staged map is searched by doc_id alone.
LookupByDocId(staged, key) ==
    IF \E k \in Keys : k[1] = key[1] /\ staged[k] # Absent
    THEN staged[CHOOSE k \in Keys : k[1] = key[1] /\ staged[k] # Absent]
    ELSE Absent

\* The staged-map lookup of get_encrypted_doc.
Lookup(staged, key) == staged[key]

\* get_encrypted_doc(doc_id, rev): a lookup that never waits for the worker.
GetEncryptedDoc(key) ==
    /\ eGot' = [eGot EXCEPT ![key] = Lookup(eStaged, key)]
    /\ UNCHANGED <<eRunning, eQueue, eStaged, eEnqueued, eProcessed, eWork,
                   eLast, eRaced, codecVars, decVars, syncVars>>

\* The worker loop, first step: the oldest pending entry is taken up; it
\* stays pending until its result is staged.
EWorkerTake ==
    /\ eRunning
    /\ eWork = NoWork
    /\ eQueue # <<>>
    /\ eWork' = Head(eQueue)
    /\ UNCHANGED <<eRunning, eQueue, eStaged, eEnqueued, eProcessed, eGot,
                   eLast, eRaced, codecVars, decVars, syncVars>>

\* Mutant: every pending entry of the key is removed with the processed one.
RemovePendingOfKey(queue, entry) ==
    SelectSeq(queue, LAMBDA e : e.key # entry.key)

\* The original pending entry, the oldest one, is removed.
RemovePending(queue, entry) == Tail(queue)

\* Mutant: an entry whose encryption fails is left at the head of the
\* pending entries.
FinishWorkStuck(staged, processed, queue, entry) ==
    LET enc == encrypt_doc_json(entry.key[1], entry.plain)
    IN  [staged |-> IF enc.exc = "none"
                    THEN [staged EXCEPT ![entry.key] = enc.val]
                    ELSE staged,
         processed |-> IF enc.exc = "none"
                       THEN processed \cup {entry.key}
                       ELSE processed,
         queue |-> IF enc.exc = "none"
                   THEN RemovePending(queue, entry) ELSE queue]

\* The entry in hand is encrypted, the result moved into the staged map and
\* the pending entry removed.  An entry whose encryption fails is dropped.
FinishWork(staged, processed, queue, entry) ==
    LET enc == encrypt_doc_json(entry.key[1], entry.plain)
    IN  [staged |-> IF enc.exc = "none"
                    THEN [staged EXCEPT ![entry.key] = enc.val]
                    ELSE staged,
         processed |-> IF enc.exc = "none"
                       THEN processed \cup {entry.key}
                       ELSE processed,
         queue |-> RemovePending(queue, entry)]

\* The worker loop, second step.
EWorkerStage ==
    /\ eRunning
    /\ eWork # NoWork
    /\ LET done == FinishWork(eStaged, eProcessed, eQueue, eWork)
       IN  /\ eStaged' = done.staged
           /\ eProcessed' = done.processed
           /\ eQueue' = done.queue
    /\ eWork' = NoWork
    /\ UNCHANGED <<eRunning, eEnqueued, eGot, eLast, eRaced, codecVars,
                   decVars, syncVars>>

\* stop(): the worker finishes the entry in hand and terminates, leaving
\* the queued entries unstaged.
EStop ==
    /\ eRunning
    /\ eRunning' = FALSE
    /\ IF eWork = NoWork
       THEN UNCHANGED <<eQueue, eStaged, eProcessed>>
       ELSE LET done == FinishWork(eStaged, eProcessed, eQueue, eWork)
            IN  /\ eStaged' = done.staged
                /\ eProcessed' = done.processed
                /\ eQueue' = done.queue
    /\ eWork' = NoWork
    /\ UNCHANGED <<eEnqueued, eGot, eLast, eRaced, codecVars, decVars,
                   syncVars>>

----------------------------------------------------------------------------
\* LeapSyncTarget: the outgoing half of sync_exchange.

\* A LeapDocument (leap), or a plain u1db Document, which has no syncable
\* flag and is always sent.
LocalDoc(id, leap, syncable, content) ==
    [id |-> id, rev |-> "r1", leap |-> leap, syncable |-> syncable,
     content |-> content]

LocalDocsOf(id) ==
    {LocalDoc(id, l[1], l[2], c) :
        l \in {<<TRUE, TRUE>>, <<TRUE, FALSE>>, <<FALSE, TRUE>>},
        c \in {Tomb, PlainContent(Plain(1))}}

\* docs_by_generations lists each changed document once.
LocalDocLists ==
    {<<>>}
    \cup {<<[doc |-> d, gen |-> 1, trans_id |-> "t1"]>> :
            d \in LocalDocsOf("d1") \cup LocalDocsOf("d2")}
    \cup {<<[doc |-> a, gen |-> 1, trans_id |-> "t1"],
            [doc |-> b, gen |-> 2, trans_id |-> "t2"]>> :
            a \in LocalDocsOf("d1"), b \in LocalDocsOf("d2")}
    \cup {<<[doc |-> b, gen |-> 1, trans_id |-> "t1"],
            [doc |-> a, gen |-> 2, trans_id |-> "t2"]>> :
            a \in LocalDocsOf("d1"), b \in LocalDocsOf("d2")}

\* The checkpoint the caller passes in.
LastKnown == [gen |-> 3, trans_id |-> "T-3"]

\* Pieces of the outgoing body: '[', comma + '\r\n' + json.dumps(dic), '\r\n]'.
OpenPiece == [t |-> "open"]
ClosePiece == [t |-> "close"]
\* Mutant: prepare() forgets the comma.
EntryPieceNoComma(c, dic) == [t |-> "entry", comma |-> FALSE, dic |-> dic]

\* prepare(**dic): the comma, the line break and the dumped dictionary.
EntryPiece(c, dic) == [t |-> "entry", comma |-> c, dic |-> dic]

RequestMeta(e) ==
    [t |-> "request_meta",
     keys |-> {"last_known_generation", "last_known_trans_id", "ensure"},
     last_known_generation |-> LastKnown.gen,
     last_known_trans_id |-> LastKnown.trans_id, ensure |-> e]

DocEntry(id, rev, content, gen, trans_id) ==
    [t |-> "entry", keys |-> {"id", "rev", "content", "gen", "trans_id"},
     id |-> id, rev |-> rev, content |-> content, gen |-> gen,
     trans_id |-> trans_id]

\* len(json.dumps(dic)): grows with the values the dictionary holds.
ContentLen(content) ==
    IF content.form = "null" THEN 4
    ELSE IF content.form = "plain" THEN 12
    ELSE 60

JsonLen(dic) ==
    IF dic.t = "request_meta"
    THEN 70 + (IF dic.ensure THEN 4 ELSE 5)
    ELSE 50 + ContentLen(dic.content) + dic.gen

\* len(piece)
PieceLen(piece) ==
    IF piece.t = "open" THEN 1
    ELSE IF piece.t = "close" THEN 3
    ELSE (IF piece.comma THEN 1 ELSE 0) + 2 + JsonLen(piece.dic)

\* Mutant: prepare() leaves the leading comma out of the length it returns.
prepare_uncounted_comma(c, dic) ==
    [entry |-> EntryPiece(c, dic), len |-> 2 + JsonLen(dic)]

\* prepare(**dic), lines 358-361: the entry appended to entries and the
\* length returned, len(entry).
prepare(c, dic) ==
    [entry |-> EntryPiece(c, dic), len |-> PieceLen(EntryPiece(c, dic))]

is_tombstone(doc) == doc.content.form = "null"

\* Mutant: the syncable flag is read the wrong way round.
SkipsSyncable(doc) == doc.leap /\ doc.syncable

\* The test of line 371: non-syncable LeapDocuments are skipped.
Skips(doc) == doc.leap /\ ~doc.syncable

NoResult == [exc |-> "pending", gen |-> 0, trans_id |-> "", payload |-> NoVal]
Failure(e) == [exc |-> e, gen |-> 0, trans_id |-> "", payload |-> NoVal]
NoConn == [content_length |-> 0, sent |-> <<>>]
NoRes == [t |-> "unbound"]

SyncIdle ==
    /\ pc = "idle"
    /\ docs_by_generations = <<>>
    /\ ensure = FALSE
    /\ idx = 1
    /\ entries = <<>>
    /\ encrypted = <<>>
    /\ size = 0
    /\ conn = NoConn
    /\ parts = <<>>
    /\ pos = 0
    /\ comma = FALSE
    /\ res = NoRes
    /\ returned = <<>>
    /\ ensured = <<>>
    /\ result = NoResult

SyncInit ==
    /\ pc = "idle"
    /\ docs_by_generations \in LocalDocLists
    /\ ensure \in BOOLEAN
    /\ idx = 1
    /\ entries = <<>>
    /\ encrypted = <<>>
    /\ size = 0
    /\ conn = NoConn
    /\ parts = <<>>
    /\ pos = 0
    /\ comma = FALSE
    /\ res = NoRes
    /\ returned = <<>>
    /\ ensured = <<>>
    /\ result = NoResult

\* Lines 347-368: the request is opened, entries = ['['] and the metadata
\* entry is prepared with no leading comma.
BeginExchange ==
    /\ pc = "idle"
    /\ pc' = "sending"
    /\ LET meta == prepare(FALSE, RequestMeta(ensure))
       IN  /\ entries' = <<OpenPiece, meta.entry>>
           /\ size' = 1 + meta.len
    /\ idx' = 1
    /\ UNCHANGED <<docs_by_generations, encrypted, ensure, conn, parts, pos,
                   comma, res, returned, ensured, result, codecVars, decVars,
                   encVars>>

\* Mutant: the encryption step is left out and get_json() is sent as it is.
OutgoingContentPlain(doc) ==
    [enc_json |-> Returned(doc.content, 0), calls |-> <<>>]

\* Lines 376-379: enc_json is get_json() for a tombstone and the envelope
\* of encrypt_doc_json otherwise; calls lists the encrypt_doc_json calls.
OutgoingContent(doc) ==
    IF is_tombstone(doc)
    THEN [enc_json |-> Returned(doc.content, 0), calls |-> <<>>]
    ELSE [enc_json |-> encrypt_doc_json(doc.id, doc.content.p),
          calls |-> <<doc.id>>]

\* Lines 369-385: one turn of the loop over docs_by_generations.
PrepareDoc ==
    /\ pc = "sending"
    /\ idx <= Len(docs_by_generations)
    /\ LET item == docs_by_generations[idx]
           doc == item.doc
           out == OutgoingContent(doc)
           enc == out.enc_json
           piece == prepare(TRUE,
                       DocEntry(doc.id, doc.rev, enc.val, item.gen,
                                item.trans_id))
       IN  IF Skips(doc)
           THEN /\ idx' = idx + 1
                /\ UNCHANGED <<pc, entries, encrypted, size, result>>
           ELSE /\ encrypted' = encrypted \o out.calls
                /\ IF enc.exc # "none"
                   THEN /\ pc' = "error"
                        /\ result' = Failure(enc.exc)
                        /\ UNCHANGED <<idx, entries, size>>
                   ELSE /\ idx' = idx + 1
                        /\ entries' = Append(entries, piece.entry)
                        /\ size' = size + piece.len
                        /\ UNCHANGED <<pc, result>>
    /\ UNCHANGED <<docs_by_generations, ensure, conn, parts, pos, comma, res,
                   returned, ensured, codecVars, decVars, encVars>>

\* Lines 386-392: the closing piece is appended, the content-length header
\* is written and every piece is sent; entries is dropped.
SendRequest ==
    /\ pc = "sending"
    /\ idx > Len(docs_by_generations)
    /\ pc' = "await"
    /\ LET all == Append(entries, ClosePiece)
       IN  /\ size' = size + PieceLen(ClosePiece)
           /\ conn' = [content_length |-> size + PieceLen(ClosePiece),
                       sent |-> all]
    /\ entries' = <<>>
    /\ UNCHANGED <<docs_by_generations, encrypted, ensure, idx, parts, pos,
                   comma, res, returned, ensured, result, codecVars, decVars,
                   encVars>>

----------------------------------------------------------------------------
\* LeapSyncTarget: the response and _parse_sync_stream.

\* A line of the response: its text without the trailing comma, and whether
\* it ends with one.
NoObj == [t |-> "none"]
Open == [kind |-> "[", comma |-> FALSE, obj |-> NoObj]
Close == [kind |-> "]", comma |-> FALSE, obj |-> NoObj]
Garbage == [kind |-> "garbage", comma |-> FALSE, obj |-> NoObj]
JsonLine(obj, c) == [kind |-> "json", comma |-> c, obj |-> obj]

ResponseMeta(uid) ==
    [t |-> "meta",
     keys |-> {"new_generation", "new_transaction_id"}
                \cup (IF uid THEN {"replica_uid"} ELSE {}),
     new_generation |-> 7, new_transaction_id |-> "T-7",
     replica_uid |-> "uid-1"]

\* The error descriptions the HTTP client maps to an exception.
KnownWireErrors == {"unavailable"}
ErrorPayload(descr) == [t |-> "error", keys |-> {"error"}, error |-> descr]

GoodEnvelope(id) == Envelope(encrypt_sym(Plain(2), passphrase_hash(id)), SYMKEY)
JunkEnvelope == Envelope(Junk, SYMKEY)
PubkeyEnvelope == Envelope(Junk, PUBKEY)

\* json.loads(line) succeeds
ValidJson(line) == line.kind = "json"
IsDict(obj) == obj.t \in {"meta", "entry", "error", "request_meta"}
HasKey(obj, k) == IsDict(obj) /\ k \in obj.keys

\* self._error(partdic): raises the exception of a known error description
\* and returns otherwise.
HttpErrorRaises(partdic) ==
    HasKey(partdic, "error") /\ partdic.error \in KnownWireErrors

\* data = parts[1:-1]
Data(p) == SubSeq(p, 2, Len(p) - 1)

\* Lines 303-306: the first data line.  The outcome names the exception
\* raised, if any, and the ensure_callback invocations.
MetaOutcome(line, ens) ==
    IF ~ValidJson(line) THEN [exc |-> "ValueError", calls |-> <<>>]
    ELSE IF ens /\ ~IsDict(line.obj) THEN [exc |-> "TypeError", calls |-> <<>>]
    ELSE IF ens /\ HasKey(line.obj, "replica_uid")
         THEN [exc |-> "none", calls |-> <<line.obj.replica_uid>>]
         ELSE [exc |-> "none", calls |-> <<>>]

\* Mutant: the generation and transaction id of the metadata line are handed
\* over in place of the entry's own.
DeliveryStale(id, rev, content, gen, trans_id) ==
    [id |-> id, rev |-> rev, content |-> content, gen |-> 7,
     trans_id |-> "T-7"]

\* The document handed to return_doc_cb with its generation and trans_id.
Delivery(id, rev, content, gen, trans_id) ==
    [id |-> id, rev |-> rev, content |-> content, gen |-> gen,
     trans_id |-> trans_id]

\* Mutant: the decryption step is left out.
DecryptContentNever(id, content) == [exc |-> "none", content |-> content]

\* Lines 318-323: the content of the document after the decryption step.
\* Only a symkey envelope is decrypted.
DecryptContent(id, content) ==
    IF content.form = "dict" /\ "_encryption_scheme" \in content.keys
       /\ content.scheme = SYMKEY
    THEN LET r == decrypt_doc_json(id, content)
         IN  IF r.exc # "none" THEN [exc |-> r.exc, content |-> content]
             ELSE IF r.val = Garbled
                  THEN [exc |-> "InvalidJSON", content |-> content]
                  ELSE [exc |-> "none", content |-> PlainContent(r.val)]
    ELSE [exc |-> "none", content |-> content]

\* Lines 310-327 for one entry line, after the comma check.
EntryOutcome(line) ==
    IF ~ValidJson(line) THEN [exc |-> "ValueError", calls |-> <<>>]
    ELSE IF ~IsDict(line.obj) THEN [exc |-> "TypeError", calls |-> <<>>]
    ELSE IF ~({"id", "rev", "content"} \subseteq line.obj.keys)
         THEN [exc |-> "KeyError", calls |-> <<>>]
    ELSE LET e == line.obj
             d == DecryptContent(e.id, e.content)
         IN  IF d.exc # "none" THEN [exc |-> d.exc, calls |-> <<>>]
             ELSE IF ~({"gen", "trans_id"} \subseteq e.keys)
                  THEN [exc |-> "KeyError", calls |-> <<>>]
             ELSE [exc |-> "none",
                   calls |-> <<Delivery(e.id, e.rev, d.content, e.gen,
                                        e.trans_id)>>]

\* Streams of up to n lines over an alphabet.
StreamsOf(lines, n) == UNION {[1..k -> lines] : k \in 0..n}

FramingLines ==
    {Open, Close, Garbage,
     JsonLine(ResponseMeta(FALSE), TRUE), JsonLine(ResponseMeta(FALSE), FALSE),
     JsonLine(DocEntry("d1", "r1", GoodEnvelope("d1"), 1, "t1"), TRUE),
     JsonLine(DocEntry("d1", "r1", GoodEnvelope("d1"), 1, "t1"), FALSE),
     JsonLine(DocEntry("d2", "r2", JunkEnvelope, 2, "t2"), TRUE),
     JsonLine(ErrorPayload("unavailable"), FALSE),
     JsonLine(ErrorPayload("mystery"), FALSE)}

\* Well-formed streams: '[', the metadata line, document entries, ']'.
\* Entry contents are numbered: a tombstone, a plain body, a symkey
\* envelope, a symkey envelope with an unrecognisable ciphertext, a pubkey
\* envelope.
EntryLists(n) ==
    UNION {{f \in [1..k -> [id : DocIds, c : 1..5]] :
              \A j \in 1..k : f[j].id = (IF j % 2 = 1 THEN "d1" ELSE "d2")} :
           k \in 0..n}

ContentNo(id, c) ==
    IF c = 1 THEN Tomb
    ELSE IF c = 2 THEN PlainContent(Plain(1))
    ELSE IF c = 3 THEN GoodEnvelope(id)
    ELSE IF c = 4 THEN JunkEnvelope
    ELSE PubkeyEnvelope

WellFormed(uid, f) ==
    <<Open, JsonLine(ResponseMeta(uid), Len(f) > 0)>>
    \o [j \in 1..Len(f) |->
          JsonLine(DocEntry(f[j].id, "r1", ContentNo(f[j].id, f[j].c), j,
                            IF j = 1 THEN "t1" ELSE "t2"),
                   j < Len(f))]
    \o <<Close>>

WellFormedStreams ==
    {WellFormed(uid, f) : uid \in BOOLEAN, f \in EntryLists(MaxEntries)}

\* A dictionary without the key k.
Lacking(obj, k) == [obj EXCEPT !.keys = @ \ {k}]

\* Streams that are well-formed but for one missing field.
DeficientStreams ==
    {<<Open, JsonLine(Lacking(ResponseMeta(FALSE), k), FALSE), Close>> :
        k \in {"new_generation", "new_transaction_id"}}
    \cup {<<Open, JsonLine(ResponseMeta(FALSE), TRUE),
            JsonLine(Lacking(DocEntry("d1", "r1", Tomb, 1, "t1"), k), FALSE),
            Close>> :
            k \in {"id", "rev", "content", "gen", "trans_id"}}

\* The response does not depend on the request: every stream of the framing
\* alphabet and the streams with a missing field are tried against the
\* empty request, the well-formed streams against every request.
Responses(docs) ==
    IF docs = <<>>
    THEN StreamsOf(FramingLines, MaxLines) \cup WellFormedStreams
            \cup DeficientStreams
    ELSE WellFormedStreams

\* Line 393: the response body arrives.
Response ==
    /\ pc = "await"
    /\ pc' = "parsing"
    /\ parts' \in Responses(docs_by_generations)
    /\ pos' = 0
    /\ UNCHANGED <<docs_by_generations, encrypted, ensure, idx, entries, size,
                   conn, comma, res, returned, ensured, result, codecVars,
                   decVars, encVars>>

\* Lines 297-306: the opening sentinel and the metadata line.
ParseHead ==
    /\ pc = "parsing"
    /\ pos = 0
    /\ IF parts = <<>> \/ parts[1] # Open
       THEN /\ pc' = "error"
            /\ result' = Failure("BrokenSyncStream")
            /\ UNCHANGED <<pos, comma, res, ensured>>
       ELSE IF Data(parts) = <<>>
       THEN /\ pos' = 2
            /\ comma' = FALSE
            /\ UNCHANGED <<pc, result, res, ensured>>
       ELSE LET line == Data(parts)[1]
                m == MetaOutcome(line, ensure)
            IN  IF ~ValidJson(line)
                THEN /\ pc' = "error"
                     /\ result' = Failure(m.exc)
                     /\ comma' = line.comma
                     /\ UNCHANGED <<pos, res, ensured>>
                ELSE IF m.exc # "none"
                THEN /\ pc' = "error"
                     /\ result' = Failure(m.exc)
                     /\ comma' = line.comma
                     /\ res' = line.obj
                     /\ UNCHANGED <<pos, ensured>>
                ELSE /\ pos' = 2
                     /\ comma' = line.comma
                     /\ res' = line.obj
                     /\ ensured' = ensured \o m.calls
                     /\ UNCHANGED <<pc, result>>
    /\ UNCHANGED <<docs_by_generations, encrypted, ensure, idx, entries, size,
                   conn, parts, returned, codecVars, decVars, encVars>>

\* Mutant: the entry is parsed and delivered before the comma is checked.
EntryStepLate(c, line) ==
    LET o == EntryOutcome(line)
    IN  IF o.exc = "none" /\ ~c
        THEN [exc |-> "BrokenSyncStream", calls |-> o.calls]
        ELSE o

\* Lines 308-327: the comma check, then the entry.
EntryStep(c, line) ==
    IF ~c THEN [exc |-> "BrokenSyncStream", calls |-> <<>>]
    ELSE EntryOutcome(line)

\* One turn of the loop over data[1:].
ParseEntry ==
    /\ pc = "parsing"
    /\ pos >= 2
    /\ pos <= Len(Data(parts))
    /\ LET line == Data(parts)[pos]
           o == EntryStep(comma, line)
       IN  /\ returned' = returned \o o.calls
           /\ IF o.exc # "none"
              THEN /\ pc' = "error"
                   /\ result' = Failure(o.exc)
                   /\ comma' = IF comma THEN line.comma ELSE comma
                   /\ UNCHANGED pos
              ELSE /\ pos' = pos + 1
                   /\ comma' = line.comma
                   /\ UNCHANGED <<pc, result>>
    /\ UNCHANGED <<docs_by_generations, encrypted, ensure, idx, entries, size,
                   conn, parts, res, ensured, codecVars, decVars, encVars>>

\* Mutant: the check for a comma on the final data line is forgotten.
TailOutcomeNoCommaCheck(p, c, r) ==
    LET last == p[Len(p)]
    IN  IF last # Close
        THEN IF ValidJson(last) /\ ~last.comma /\ IsDict(last.obj)
             THEN [exc |-> IF HttpErrorRaises(last.obj)
                           THEN "RemoteError" ELSE "BrokenSyncStream",
                   gen |-> 0, trans_id |-> "", payload |-> last.obj]
             ELSE Failure("BrokenSyncStream")
        ELSE IF Data(p) = <<>> THEN Failure("BrokenSyncStream")
        ELSE IF ~IsDict(r) THEN Failure("TypeError")
        ELSE IF ~({"new_generation", "new_transaction_id"} \subseteq r.keys)
             THEN Failure("KeyError")
        ELSE [exc |-> "none", gen |-> r.new_generation,
              trans_id |-> r.new_transaction_id, payload |-> NoVal]

\* Mutant: a final line other than ']' is a broken stream at once, the error
\* payload is never looked at.
TailOutcomeNoPayload(p, c, r) ==
    LET last == p[Len(p)]
    IN  IF last # Close THEN Failure("BrokenSyncStream")
        ELSE IF Data(p) = <<>> \/ c THEN Failure("BrokenSyncStream")
        ELSE IF ~IsDict(r) THEN Failure("TypeError")
        ELSE IF ~({"new_generation", "new_transaction_id"} \subseteq r.keys)
             THEN Failure("KeyError")
        ELSE [exc |-> "none", gen |-> r.new_generation,
              trans_id |-> r.new_transaction_id, payload |-> NoVal]

\* Lines 328-339: the final line and the trailing comma; "none" when
\* _parse_sync_stream returns res.  payload is the dictionary given to
\* self._error.
FinalLine(p, c) ==
    LET last == p[Len(p)]
    IN  IF last # Close
        THEN IF ValidJson(last) /\ ~last.comma /\ IsDict(last.obj)
             THEN [exc |-> IF HttpErrorRaises(last.obj)
                           THEN "RemoteError" ELSE "BrokenSyncStream",
                   gen |-> 0, trans_id |-> "", payload |-> last.obj]
             ELSE Failure("BrokenSyncStream")
        ELSE IF Data(p) = <<>> \/ c THEN Failure("BrokenSyncStream")
        ELSE [exc |-> "none", gen |-> 0, trans_id |-> "", payload |-> NoVal]

\* Mutant: a failure at the end of the stream still reports the pair of the
\* metadata line.
TailOutcomePairOnError(p, c, r) ==
    LET end == FinalLine(p, c)
        has == IsDict(r)
               /\ {"new_generation", "new_transaction_id"} \subseteq r.keys
    IN  IF end.exc # "none"
        THEN IF has
             THEN [end EXCEPT !.gen = r.new_generation,
                              !.trans_id = r.new_transaction_id]
             ELSE end
        ELSE IF ~IsDict(r) THEN Failure("TypeError")
        ELSE IF ~has THEN Failure("KeyError")
        ELSE [exc |-> "none", gen |-> r.new_generation,
              trans_id |-> r.new_transaction_id, payload |-> NoVal]

\* Mutant: the checkpoint the caller passed in is handed back.
TailOutcomeStalePair(p, c, r) ==
    LET end == FinalLine(p, c)
    IN  IF end.exc # "none" THEN end
        ELSE IF ~IsDict(r) THEN Failure("TypeError")
        ELSE IF ~({"new_generation", "new_transaction_id"} \subseteq r.keys)
             THEN Failure("KeyError")
        ELSE [exc |-> "none", gen |-> LastKnown.gen,
              trans_id |-> LastKnown.trans_id, payload |-> NoVal]

\* Lines 328-339 and 396: the end of _parse_sync_stream and the pair
\* sync_exchange returns.
TailOutcome(p, c, r) ==
    LET end == FinalLine(p, c)
    IN  IF end.exc # "none" THEN end
        ELSE IF ~IsDict(r) THEN Failure("TypeError")
        ELSE IF ~({"new_generation", "new_transaction_id"} \subseteq r.keys)
             THEN Failure("KeyError")
        ELSE [exc |-> "none", gen |-> r.new_generation,
              trans_id |-> r.new_transaction_id, payload |-> NoVal]

\* The loop is over: the final line is examined and the exchange ends.
ParseTail ==
    /\ pc = "parsing"
    /\ pos >= 2
    /\ pos > Len(Data(parts))
    /\ LET out == TailOutcome(parts, comma, res)
       IN  /\ result' = out
           /\ pc' = IF out.exc = "none" THEN "complete" ELSE "error"
    /\ UNCHANGED <<docs_by_generations, encrypted, ensure, idx, entries, size,
                   conn, parts, pos, comma, res, returned, ensured, codecVars,
                   decVars, encVars>>

\* The lines data.splitlines() finds in the concatenation of the pieces
\* sent: the comma that opens a piece ends the line before it.  json.loads
\* gives back the dictionary json.dumps was given, its values being strings,
\* integers, booleans and null.
SplitLines(pieces) ==
    [i \in 1..Len(pieces) |->
        LET c == /\ i < Len(pieces)
                 /\ pieces[i + 1].t = "entry"
                 /\ pieces[i + 1].comma
        IN  IF pieces[i].t = "open"
            THEN [kind |-> "[", comma |-> c, obj |-> NoObj]
            ELSE IF pieces[i].t = "close"
            THEN [kind |-> "]", comma |-> c, obj |-> NoObj]
            ELSE JsonLine(pieces[i].dic, c)]

\* The body sent is given to _parse_sync_stream.
Loopback ==
    /\ pc = "await"
    /\ pc' = "parsing"
    /\ parts' = SplitLines(conn.sent)
    /\ pos' = 0
    /\ UNCHANGED <<docs_by_generations, encrypted, ensure, idx, entries, size,
                   conn, comma, res, returned, ensured, result, codecVars,
                   decVars, encVars>>

\* _parse_sync_stream on its own: the loop is over, the final line is
\* examined and res is returned.
DecodeTail ==
    /\ pc = "parsing"
    /\ pos >= 2
    /\ pos > Len(Data(parts))
    /\ LET out == FinalLine(parts, comma)
       IN  /\ result' = out
           /\ pc' = IF out.exc = "none" THEN "decoded" ELSE "error"
    /\ UNCHANGED <<docs_by_generations, encrypted, ensure, idx, entries, size,
                   conn, parts, pos, comma, res, returned, ensured, codecVars,
                   decVars, encVars>>

----------------------------------------------------------------------------
\* Specifications.

InitCodec == CodecInit /\ DecIdle /\ EncIdle /\ SyncIdle
NextCodec == Decrypt \/ EncryptDecrypt
SpecCodec == InitCodec /\ [][NextCodec]_vars

InitDec == CodecIdle /\ DecIdle /\ EncIdle /\ SyncIdle
NextDec ==
    \/ \E n \in 1..MaxDocs : DStart(n)
    \/ \E doc \in ReceivedDocs : InsertReceivedDoc(doc)
    \/ \E i \in 1..(MaxDocs + 1) : WorkerDecrypted(i)
    \/ DStop
SpecDec == InitDec /\ [][NextDec]_vars

\* The worker loop runs for as long as the pool does: a decryption that can
\* finish eventually does.
SpecDecFair ==
    SpecDec /\ \A i \in 1..(MaxDocs + 1) : WF_vars(WorkerDecrypted(i))

InitEnc == CodecIdle /\ DecIdle /\ EncIdle /\ SyncIdle
NextEnc ==
    \/ EStart
    \/ EStop
    \/ \E key \in Keys, plain \in Plains : EnqueueForEncryption(key, plain)
    \/ \E key \in Keys : GetEncryptedDoc(key)
    \/ EWorkerTake
    \/ EWorkerStage
SpecEnc == InitEnc /\ [][NextEnc]_vars

InitSync == CodecIdle /\ DecIdle /\ EncIdle /\ SyncInit
NextSync ==
    \/ BeginExchange
    \/ PrepareDoc
    \/ SendRequest
    \/ Response
    \/ ParseHead
    \/ ParseEntry
    \/ ParseTail
SpecSync == InitSync /\ [][NextSync]_vars

\* The stream codec on its own: what sync_exchange encodes is decoded by
\* _parse_sync_stream.
NextRoundTrip ==
    \/ BeginExchange
    \/ PrepareDoc
    \/ SendRequest
    \/ Loopback
    \/ ParseHead
    \/ ParseEntry
    \/ DecodeTail
SpecRoundTrip == InitSync /\ [][NextRoundTrip]_vars

\* The pools with entries whose encryption or decryption fails.  The pools
\* share no state, so either the one or the other is exercised.
FailingPlains == {Plain(1), Unencryptable}
FailingDocs == {d \in ReceivedDocs : d.content.form = "plain"} \cup {BadDoc}
FailurePolicies == {"drop", "surface"}

NextFail ==
    \/ DecIdle /\ EStart
    \/ DecIdle /\ EStop
    \/ DecIdle /\ \E key \in Keys, plain \in FailingPlains :
                     EnqueueForEncryption(key, plain)
    \/ DecIdle /\ \E key \in Keys : GetEncryptedDoc(key)
    \/ DecIdle /\ EWorkerTake
    \/ DecIdle /\ EWorkerStage
    \/ EncIdle /\ \E n \in 1..MaxDocs : DStart(n)
    \/ EncIdle /\ \E doc \in FailingDocs : InsertReceivedDoc(doc)
    \/ EncIdle /\ \E i \in 1..(MaxDocs + 1) : WorkerDecrypted(i)
    \/ EncIdle /\ \E i \in 1..(MaxDocs + 1), policy \in FailurePolicies :
                     WorkerFailed(i, policy)
    \/ EncIdle /\ DStop
SpecFail == InitDec /\ [][NextFail]_vars

\* The worker loops run for as long as their pool does.
SpecFailFair ==
    /\ SpecFail
    /\ WF_vars(DecIdle /\ EWorkerTake)
    /\ WF_vars(DecIdle /\ EWorkerStage)
    /\ \A i \in 1..(MaxDocs + 1) :
          /\ WF_vars(EncIdle /\ WorkerDecrypted(i))
          /\ WF_vars(EncIdle /\ \E policy \in FailurePolicies :
                                    WorkerFailed(i, policy))

\* The worker loop keeps taking entries while the pool runs, and the caller
\* keeps polling.
SpecEncFair ==
    /\ SpecEnc
    /\ WF_vars(EWorkerTake)
    /\ WF_vars(EWorkerStage)
    /\ \A key \in Keys : WF_vars(GetEncryptedDoc(key))

----------------------------------------------------------------------------
\* Decrypter pool properties.

\* C1: the insertion callback is invoked in strictly increasing
\* sequence-index order, the k-th invocation carrying the document,
\* generation and trans_id inserted with index k, whatever the order in which
\* the workers finish; once every inserted document of a session of N is
\* decrypted the callback has been invoked exactly N times.
C1_InOrderDelivery ==
    /\ Len(dDelivered) <= Len(dArrived)
    /\ Len(dDelivered) <= dExpected
    /\ \A k \in 1..Len(dDelivered) :
          dDelivered[k] = DeliveredTuple(dArrived[k])
    /\ (Len(dArrived) = dExpected /\ dPending = {})
          => Len(dDelivered) = dExpected

\* A session of three documents decrypted in the order 3, 2, 1 and delivered.
C1_Witness ==
    /\ dExpected = 3
    /\ dCompleted = <<3, 2, 1>>
    /\ Len(dDelivered) = 3

\* C2: the completion signal is resolved at most once, and only when
\* expectedCount documents have been delivered to the insertion callback,
\* in every interleaving of inserts, worker completions and stop().
C2_CompletionSafety ==
    /\ dResolved <= 1
    /\ dResolved = 1 => Len(dDelivered) = dExpected

\* The session completed and the pool was stopped afterwards.
C2_Witness ==
    /\ dResolved = 1
    /\ ~dRunning
    /\ dExpected >= 2

\* C3: once all N documents of a session are inserted, the completion signal
\* is eventually resolved unless stop() is called.
C3_CompletionLiveness ==
    (dRunning /\ Len(dArrived) = dExpected) ~> (dResolved = 1 \/ ~dRunning)

\* A running session whose documents finished out of order and whose signal
\* is resolved.
C3_Witness ==
    /\ dRunning
    /\ dResolved = 1
    /\ dExpected >= 2
    /\ dCompleted[1] # 1

----------------------------------------------------------------------------
\* Encrypter pool properties.

QueuedKeys == {eQueue[n].key : n \in 1..Len(eQueue)}

\* C4: on a started pool, once a document is enqueued, polling
\* get_encrypted_doc for its key eventually returns an envelope unless the
\* pool is stopped; and a get_encrypted_doc call can always be taken, it
\* never waits for the worker.
C4_EncrypterLiveness ==
    /\ \A key \in Keys :
          (eRunning /\ key \in QueuedKeys) ~> (eGot[key] # Absent \/ ~eRunning)
    /\ [](\A key \in Keys : ENABLED GetEncryptedDoc(key))

\* On a running pool a poll returned the envelope of the enqueued document
\* and no entry is left pending.
C4_Witness ==
    /\ eRunning
    /\ eGot[<<"d1", "r1">>] = encrypt_doc_json("d1", Plain(1)).val
    /\ eQueue = <<>>

\* C5: get_encrypted_doc returns absent for a key never enqueued and for an
\* enqueued key the worker has not staged yet; a non-absent result implies
\* the key was enqueued and processed by the worker.
C5_AbsentLookup ==
    \A key \in Keys :
        /\ key \notin eEnqueued => Lookup(eStaged, key) = Absent
        /\ key \notin eProcessed => Lookup(eStaged, key) = Absent
        /\ eGot[key] # Absent => key \in eEnqueued /\ key \in eProcessed

\* One key is staged and was returned, the other key of the same document
\* was never enqueued and was looked up.
C5_Witness ==
    /\ eGot[<<"d1", "r1">>] # Absent
    /\ <<"d1", "r2">> \notin eEnqueued
    /\ eGot[<<"d1", "r2">>] = Absent
    /\ eStaged[<<"d1", "r1">>] # Absent

----------------------------------------------------------------------------
\* Envelope codec properties.

\* C6: decrypt_doc_json fails with UnknownEncryptionSchemes for every
\* envelope holding both keys whose _encryption_scheme is not symkey, and
\* never calls the symmetric decryption primitive for it.
C6_UnsupportedScheme ==
    (/\ codecOut # NoCall
     /\ codecIn.doc_id # ""
     /\ codecIn.doc_json.form = "dict"
     /\ codecIn.doc_json.keys = {"_encrypted_json", "_encryption_scheme"}
     /\ codecIn.doc_json.scheme # SYMKEY)
    => (codecOut.exc = "UnknownEncryptionSchemes" /\ codecOut.sym = 0)

----------------------------------------------------------------------------
\* Sync exchange properties.

Terminal == pc \in {"complete", "error"}
Last(p) == p[Len(p)]

\* The final line is a JSON object.
JsonObject(line) == ValidJson(line) /\ ~line.comma /\ IsDict(line.obj)

\* Data line k is processed without an error (the comma before it aside).
LineOK(p, k) ==
    IF k = 1 THEN MetaOutcome(Data(p)[1], ensure).exc = "none"
    ELSE EntryOutcome(Data(p)[k]).exc = "none"

\* The opening line is '[', every data line is processed without an error
\* and every data line but the last ends with a comma.
DataClean(p) ==
    /\ p # <<>>
    /\ p[1] = Open
    /\ \A k \in 1..Len(Data(p)) : LineOK(p, k)
    /\ \A k \in 1..(Len(Data(p)) - 1) : Data(p)[k].comma

\* C7 as claimed: a response on which parsing fails is rejected with zero
\* invocations of the insertion callback.
C7_NoPartialApplication ==
    pc = "error" => returned = <<>>

\* C7: a response on which parsing fails ends the exchange with an error and
\* no generation pair, and the insertion callback has been invoked exactly
\* for the document entries before the point of failure, in order: never for
\* an entry whose preceding line lacks the comma, never for the entry that
\* fails, and not at all when the failure is at the opening line, at the
\* metadata line or at the first document entry.
C7_OnlyEntriesBeforeFailure ==
    pc = "error" =>
        /\ result.exc \notin {"none", "pending"}
        /\ result.gen = 0 /\ result.trans_id = ""
        /\ Len(returned) = (IF pos >= 2 THEN pos - 2 ELSE 0)
        /\ Len(returned) <= Len(Data(parts)) - 1 \/ returned = <<>>
        /\ \A k \in 1..Len(returned) :
              /\ Data(parts)[k].comma
              /\ EntryOutcome(Data(parts)[k + 1]).calls = <<returned[k]>>
        /\ (\/ parts = <<>>
            \/ parts[1] # Open
            \/ Len(Data(parts)) <= 1
            \/ ~LineOK(parts, 1)
            \/ ~Data(parts)[1].comma
            \/ ~LineOK(parts, 2)) => returned = <<>>

\* A stream that breaks after one document was handed to the callback.
C7_Witness ==
    /\ pc = "error"
    /\ result.exc = "BrokenSyncStream"
    /\ Len(returned) = 1
    /\ Last(parts) # Close

\* One of the framing defects of C8.
FramingDefect(p) ==
    \/ p = <<>>
    \/ p[1] # Open
    \/ Last(p) # Close /\ ~JsonObject(Last(p))
    \/ \E k \in 1..(Len(Data(p)) - 1) : ~Data(p)[k].comma
    \/ Data(p) # <<>> /\ Data(p)[Len(Data(p))].comma

\* Every data line is a JSON object holding all its fields.
NoMalformedLine(p) ==
    \A k \in 1..Len(Data(p)) :
        /\ ValidJson(Data(p)[k])
        /\ Data(p)[k].obj.t = (IF k = 1 THEN "meta" ELSE "entry")

\* C8 as claimed, on the streams whose data lines are all valid JSON with
\* every field and whose last line is no JSON object: a stream with a
\* framing defect fails with BrokenSyncStream.
C8_FramingRejection ==
    (/\ Terminal
     /\ NoMalformedLine(parts)
     /\ parts # <<>> => ~JsonObject(Last(parts))
     /\ FramingDefect(parts))
        => result.exc = "BrokenSyncStream"

\* C8: decoding fails with BrokenSyncStream for every stream that is empty
\* or whose first line is not '['; and, when every data line before the
\* defect is processed without an error of its own, for a missing comma
\* between two data lines, for a last line that is neither ']' nor a JSON
\* object, and for a comma on the final data line before ']'.
C8_FramingRejectionReached ==
    Terminal =>
        /\ (parts = <<>> \/ parts[1] # Open)
              => result.exc = "BrokenSyncStream"
        /\ \A k \in 1..(Len(Data(parts)) - 1) :
              (/\ parts[1] = Open
               /\ ~Data(parts)[k].comma
               /\ \A j \in 1..k : LineOK(parts, j)
               /\ \A j \in 1..(k - 1) : Data(parts)[j].comma)
              => result.exc = "BrokenSyncStream"
        /\ (DataClean(parts) /\ Last(parts) # Close
                /\ ~JsonObject(Last(parts)))
              => result.exc = "BrokenSyncStream"
        /\ (DataClean(parts) /\ Last(parts) = Close /\ Data(parts) # <<>>
                /\ Data(parts)[Len(Data(parts))].comma)
              => result.exc = "BrokenSyncStream"

\* A document was delivered, then the final data line turned out to end
\* with a comma right before ']'.
C8_Witness ==
    /\ pc = "error"
    /\ result.exc = "BrokenSyncStream"
    /\ parts # <<>>
    /\ Last(parts) = Close
    /\ Len(returned) >= 1
    /\ Data(parts)[Len(Data(parts))].comma

\* C9 as claimed, for the error payloads self._error raises for: when the
\* final line is such a JSON object the exchange fails with the remote error
\* carrying it, whatever the lines before it.
C9_RemoteErrorAlways ==
    (Terminal /\ parts # <<>> /\ JsonObject(Last(parts))
        /\ HttpErrorRaises(Last(parts).obj))
        => (result.exc = "RemoteError" /\ result.payload = Last(parts).obj)

\* C9: when the final line is a JSON object the exchange never returns a
\* generation pair; and when the lines before it are processed without an
\* error (first line '[', separating commas present) the object is handed
\* verbatim to self._error and the exchange fails with the error raised for
\* it, or with BrokenSyncStream when self._error raises none.
C9_RemoteErrorReached ==
    (Terminal /\ parts # <<>> /\ JsonObject(Last(parts))) =>
        /\ pc = "error"
        /\ result.exc # "none"
        /\ result.gen = 0 /\ result.trans_id = ""
        /\ DataClean(parts) =>
              /\ result.payload = Last(parts).obj
              /\ result.exc = (IF HttpErrorRaises(Last(parts).obj)
                               THEN "RemoteError" ELSE "BrokenSyncStream")

\* The remote error arrived after a document had been delivered.
C9_Witness ==
    /\ pc = "error"
    /\ result.exc = "RemoteError"
    /\ result.payload = ErrorPayload("unavailable")
    /\ Len(returned) >= 1

IsDocPiece(piece) == piece.t = "entry" /\ piece.dic.t = "entry"
IsSyncable(item) == item.doc.syncable

\* C10: the document entries written to the connection are exactly the
\* entries of the syncable documents, one each and in order, and no entry
\* prepared or sent has the id of a non-syncable document.
C10_OnlySyncableSent ==
    /\ \A k \in 1..Len(entries) : \A n \in 1..Len(docs_by_generations) :
          (IsDocPiece(entries[k]) /\ ~IsSyncable(docs_by_generations[n]))
              => entries[k].dic.id # docs_by_generations[n].doc.id
    /\ conn # NoConn =>
          LET sent == SelectSeq(conn.sent, IsDocPiece)
              want == SelectSeq(docs_by_generations, IsSyncable)
          IN  /\ Len(sent) = Len(want)
              /\ \A k \in 1..Len(sent) :
                    /\ sent[k].dic.id = want[k].doc.id
                    /\ sent[k].dic.rev = want[k].doc.rev
                    /\ sent[k].dic.gen = want[k].gen
                    /\ sent[k].dic.trans_id = want[k].trans_id
              /\ \A k \in 1..Len(sent) : \A n \in 1..Len(docs_by_generations) :
                    ~IsSyncable(docs_by_generations[n])
                        => sent[k].dic.id # docs_by_generations[n].doc.id

\* A request was sent for a list holding a non-syncable document followed by
\* a syncable one.
C10_Witness ==
    /\ pc = "await"
    /\ Len(docs_by_generations) = 2
    /\ ~docs_by_generations[1].doc.syncable
    /\ docs_by_generations[2].doc.syncable
    /\ Len(conn.sent) = 4

\* The content the entry of a document must carry on the wire.
IsEnvelopeOf(content, doc) ==
    /\ content.form = "dict"
    /\ content.keys = {"_encrypted_json", "_encryption_scheme"}
    /\ content.scheme = SYMKEY
    /\ content.ct = encrypt_sym(doc.content.p, passphrase_hash(doc.id))

\* C11: every document entry prepared or written to the connection carries
\* the envelope encrypt_doc_json produces for that document id when the
\* document is not a tombstone, and the unencrypted null content when it is;
\* encrypt_doc_json is never called for a tombstone, and the plaintext of a
\* document never appears in an entry.
C11_CiphertextOrTombstone ==
    /\ \A k \in 1..Len(entries) :
          IsDocPiece(entries[k]) => entries[k].dic.content.form # "plain"
    /\ \A k \in 1..Len(encrypted) : \A n \in 1..Len(docs_by_generations) :
          docs_by_generations[n].doc.id = encrypted[k]
              => ~is_tombstone(docs_by_generations[n].doc)
    /\ conn # NoConn =>
          LET sent == SelectSeq(conn.sent, IsDocPiece)
              want == SelectSeq(docs_by_generations, IsSyncable)
          IN  /\ Len(sent) = Len(want)
              /\ \A k \in 1..Len(sent) :
                    IF is_tombstone(want[k].doc)
                    THEN sent[k].dic.content = Tomb
                    ELSE IsEnvelopeOf(sent[k].dic.content, want[k].doc)
              /\ encrypted =
                    LET live == SelectSeq(want,
                                    LAMBDA item : ~is_tombstone(item.doc))
                    IN  [k \in 1..Len(live) |-> live[k].doc.id]

\* A request was sent for a tombstone followed by a document with a body.
C11_Witness ==
    /\ pc = "await"
    /\ Len(conn.sent) = 5
    /\ is_tombstone(docs_by_generations[1].doc)
    /\ ~is_tombstone(docs_by_generations[2].doc)
    /\ encrypted = <<docs_by_generations[2].doc.id>>

\* C12: the stream sync_exchange encodes ('[', the metadata with no leading
\* comma, each document entry preceded by a comma that ends the previous
\* line, ']') is accepted by _parse_sync_stream without an error, which
\* returns the same metadata and hands over the same documents (id, rev,
\* content, gen, trans_id) in the same order.
C12_StreamRoundTrip ==
    /\ conn # NoConn => pc # "error"
    /\ pc = "decoded" =>
          LET want == SelectSeq(docs_by_generations, IsSyncable)
          IN  /\ res = RequestMeta(ensure)
              /\ Len(returned) = Len(want)
              /\ \A k \in 1..Len(want) :
                    returned[k] =
                        Delivery(want[k].doc.id, want[k].doc.rev,
                                 want[k].doc.content, want[k].gen,
                                 want[k].trans_id)

\* Two documents, a body and a tombstone, went through the encoder and the
\* decoder.
C12_Witness ==
    /\ pc = "decoded"
    /\ Len(returned) = 2
    /\ returned[1].content = PlainContent(Plain(1))
    /\ returned[2].content = Tomb
    /\ Len(parts) = 5

----------------------------------------------------------------------------
\* Envelope codec: encryption and decryption together.

\* C13: for every document body and every non-empty doc id,
\* decrypt_doc_json on the result of encrypt_doc_json with the same doc id
\* returns the body, and the envelope is a dictionary with exactly the keys
\* _encrypted_json and _encryption_scheme whose scheme is symkey.
C13_EnvelopeRoundTrip ==
    (codecEnv # NoCall /\ codecIn.doc_id # "") =>
        /\ codecEnv.exc = "none"
        /\ codecEnv.val.form = "dict"
        /\ codecEnv.val.keys = {"_encrypted_json", "_encryption_scheme"}
        /\ codecEnv.val.scheme = SYMKEY
        /\ codecRound.exc = "none"
        /\ codecRound.val = codecPlain

\* The second body went through the codec under the second doc id.
C13_Witness ==
    /\ codecEnv # NoCall
    /\ codecIn.doc_id = "d2"
    /\ codecPlain = Plain(2)
    /\ codecRound = Returned(Plain(2), 1)

----------------------------------------------------------------------------
\* Sync exchange: the result and the incoming documents.

\* The wire grammar: '[', a metadata object holding new_generation and
\* new_transaction_id, document entries holding their five fields, a comma
\* after every data line but the last, ']'.
GrammarOK(p) ==
    /\ Len(p) >= 3
    /\ p[1] = Open
    /\ Last(p) = Close
    /\ \A k \in 1..Len(Data(p)) :
          /\ ValidJson(Data(p)[k])
          /\ Data(p)[k].comma = (k < Len(Data(p)))
          /\ IF k = 1
             THEN /\ Data(p)[k].obj.t = "meta"
                  /\ {"new_generation", "new_transaction_id"}
                        \subseteq Data(p)[k].obj.keys
             ELSE /\ Data(p)[k].obj.t = "entry"
                  /\ {"id", "rev", "content", "gen", "trans_id"}
                        \subseteq Data(p)[k].obj.keys

\* The content of every document entry passes the decryption step.
AllDecrypt(p) ==
    \A k \in 2..Len(Data(p)) :
        DecryptContent(Data(p)[k].obj.id, Data(p)[k].obj.content).exc = "none"

\* C14 as claimed: whenever the response is a well-formed stream ending in
\* ']' the exchange returns the new_generation and new_transaction_id of the
\* metadata line.
C14_PairForWellFormed ==
    (Terminal /\ GrammarOK(parts)) =>
        /\ result.exc = "none"
        /\ result.gen = Data(parts)[1].obj.new_generation
        /\ result.trans_id = Data(parts)[1].obj.new_transaction_id

\* C14: whenever the response is a well-formed stream ending in ']' and the
\* content of each of its document entries passes the decryption step, the
\* exchange returns exactly the new_generation and new_transaction_id of the
\* metadata line, with no callback invocation when the response holds the
\* metadata line only; when an entry does not decrypt the exchange fails
\* with the decryption error and returns no pair.
C14_PairWhenDecryptable ==
    (Terminal /\ GrammarOK(parts)) =>
        IF AllDecrypt(parts)
        THEN /\ pc = "complete"
             /\ result.exc = "none"
             /\ result.gen = Data(parts)[1].obj.new_generation
             /\ result.trans_id = Data(parts)[1].obj.new_transaction_id
             /\ Len(returned) = Len(Data(parts)) - 1
        ELSE /\ pc = "error"
             /\ result.exc \in {"DocumentNotEncrypted", "InvalidJSON"}
             /\ result.gen = 0 /\ result.trans_id = ""

\* No local document, a response holding the metadata line only: the pair
\* is returned and the callback was not invoked.
C14_Witness ==
    /\ pc = "complete"
    /\ docs_by_generations = <<>>
    /\ Len(parts) = 3
    /\ returned = <<>>
    /\ result.gen = 7 /\ result.trans_id = "T-7"

IsEnvelope(content) ==
    content.form = "dict" /\ "_encryption_scheme" \in content.keys

\* C15 as claimed: the insertion callback never receives a document whose
\* content is still an encryption envelope, whatever its scheme tag.
C15_NoEnvelopeDelivered ==
    \A k \in 1..Len(returned) : ~IsEnvelope(returned[k].content)

\* C15: a document entry whose content carries a symkey envelope is
\* decrypted before the insertion callback is invoked, which receives the
\* plaintext and never a symkey envelope; content carrying an envelope of
\* any other scheme, and content without an envelope, is delivered
\* unchanged.
C15_SymkeyDecrypted ==
    \A k \in 1..Len(returned) :
        LET sent == Data(parts)[k + 1].obj.content
            got == returned[k].content
        IN  IF IsEnvelope(sent) /\ sent.scheme = SYMKEY
            THEN /\ ~IsEnvelope(got)
                 /\ got = PlainContent(sent.ct.p)
            ELSE got = sent

\* A symkey envelope was delivered decrypted and a pubkey envelope as it
\* came.
C15_Witness ==
    /\ Len(returned) = 2
    /\ Data(parts)[2].obj.content = GoodEnvelope("d1")
    /\ returned[1].content = PlainContent(Plain(2))
    /\ returned[2].content = PubkeyEnvelope

\* A data line that is not valid JSON, a metadata line without
\* new_generation or new_transaction_id, or a document entry without one of
\* its five fields.
MalformedLine(p, k) ==
    LET line == Data(p)[k]
    IN  \/ ~ValidJson(line)
        \/ k = 1 /\ ~({"new_generation", "new_transaction_id"}
                          \subseteq line.obj.keys)
        \/ k > 1 /\ ~({"id", "rev", "content", "gen", "trans_id"}
                          \subseteq line.obj.keys)

\* C16: decoding fails with BrokenSyncStream, and with no other error, for
\* every stream in which a data line is not valid JSON, a document entry
\* lacks one of id, rev, content, gen, trans_id, or the metadata line lacks
\* new_generation or new_transaction_id.
C16_MalformedLineIsBroken ==
    (Terminal /\ parts # <<>>
        /\ \E k \in 1..Len(Data(parts)) : MalformedLine(parts, k))
        => result.exc = "BrokenSyncStream"

----------------------------------------------------------------------------
\* Envelope codec: malformed envelopes.

\* The string does not parse to an object holding both keys.
NotAnEnvelope(doc_json) ==
    \/ doc_json.form # "dict"
    \/ ~({"_encrypted_json", "_encryption_scheme"} \subseteq doc_json.keys)

\* C17: decrypt_doc_json fails with the error of a malformed envelope
\* (DocumentNotEncrypted), never calling the symmetric decryption primitive,
\* whenever the string does not parse to an object holding both
\* _encrypted_json and _encryption_scheme, and whenever the scheme is symkey
\* but the detector does not recognise the ciphertext.
C17_MalformedEnvelope ==
    (/\ codecOut # NoCall
     /\ codecIn.doc_id # ""
     /\ \/ NotAnEnvelope(codecIn.doc_json)
        \/ /\ codecIn.doc_json.scheme = SYMKEY
           /\ ~is_encrypted_sym(codecIn.doc_json.ct))
    => (codecOut.exc = "DocumentNotEncrypted" /\ codecOut.sym = 0)

----------------------------------------------------------------------------
\* Sync exchange: the state machine.

\* The moves of one exchange.
ExchangeMoves ==
    {<<"idle", "sending">>, <<"sending", "await">>, <<"await", "parsing">>,
     <<"parsing", "complete">>, <<"sending", "error">>,
     <<"parsing", "error">>}

\* The whole outgoing stream, through the closing ']', has been sent.
OutgoingSent ==
    /\ conn # NoConn
    /\ conn.sent[1] = OpenPiece
    /\ Last(conn.sent) = ClosePiece
    /\ entries = <<>>

\* C18: one exchange moves only idle -> sending -> await -> parsing ->
\* complete, or into the error state; nothing of the response is parsed and
\* no callback is invoked before the whole outgoing stream has been sent;
\* and a generation pair is reported in the complete state only, never in
\* the error state.
C18_ExchangeStateMachine ==
    /\ [][/\ pc' # pc => <<pc, pc'>> \in ExchangeMoves
          /\ (returned' # returned \/ ensured' # ensured \/ pos' # pos
                 \/ res' # res)
                => (pc = "parsing" /\ OutgoingSent)]_vars
    /\ [](pc \in {"idle", "sending"} =>
            /\ conn = NoConn
            /\ parts = <<>> /\ pos = 0 /\ res = NoRes
            /\ returned = <<>> /\ ensured = <<>>)
    /\ [](pc \in {"await", "parsing", "complete"} => OutgoingSent)
    /\ [](result.exc = "none" <=> pc = "complete")
    /\ [](pc # "complete" => result.gen = 0 /\ result.trans_id = "")
    /\ [](pc = "error" <=> result.exc \notin {"none", "pending"})

\* Two documents were sent, one was received, and the exchange completed.
C18_Witness ==
    /\ pc = "complete"
    /\ Len(conn.sent) = 5
    /\ Len(returned) = 1
    /\ result.gen = 7

----------------------------------------------------------------------------
\* Encrypter pool: the same key enqueued twice.

\* The envelope of the plaintext the key was last enqueued with.
LastEnvelope(key) == encrypt_doc_json(key[1], eLast[key]).val

\* The worker has no pending entry left.
NothingPending == eQueue = <<>> /\ eWork = NoWork

\* C19: when a key is enqueued with one plaintext and then with another
\* before the first entry is consumed, then in every interleaving of the
\* enqueues with the worker's steps, once the worker has no pending entry
\* left get_encrypted_doc for the key returns the envelope of the plaintext
\* enqueued last, never that of the earlier one.
C19_LastWriteWins ==
    /\ [](\A key \in Keys :
            (NothingPending /\ eLast[key] # NoVal) =>
                Lookup(eStaged, key) = LastEnvelope(key))
    /\ [][\A key \in Keys :
            (NothingPending /\ eLast[key] # NoVal /\ GetEncryptedDoc(key))
                => eGot'[key] = LastEnvelope(key)]_vars

\* The key was enqueued with the second plaintext while its entry with the
\* first was still pending; both were processed and the lookup returned the
\* envelope of the second.
C19_Witness ==
    /\ eRaced[<<"d1", "r1">>]
    /\ eLast[<<"d1", "r1">>] = Plain(2)
    /\ NothingPending
    /\ eRunning
    /\ eGot[<<"d1", "r1">>] = encrypt_doc_json("d1", Plain(2)).val
    /\ <<"d1", "r2">> \notin eEnqueued

----------------------------------------------------------------------------
\* The pools when the encryption or the decryption of an entry fails.

\* An entry for the key whose encryption succeeds is pending.
GoodPending(key) ==
    \E n \in 1..Len(eQueue) :
        /\ eQueue[n].key = key
        /\ encrypt_doc_json(key[1], eQueue[n].plain).exc = "none"

\* The indices below n, ascending.
Indices(n) == [j \in 1..n |-> j]

\* The inserted documents of the session whose decryption succeeds, and the
\* indices of those whose decryption fails, among the indices the drain has
\* passed.
GoodPassed ==
    SelectSeq(Indices(dNext - 1), LAMBDA j : ~DecryptFails(dArrived[j]))
BadPassed ==
    SelectSeq(Indices(dNext - 1), LAMBDA j : DecryptFails(dArrived[j]))

\* Every inserted document that decrypts has been delivered.
AllGoodDelivered ==
    Len(dDelivered) =
        Cardinality({j \in 1..Len(dArrived) : ~DecryptFails(dArrived[j])})

AllInserted == dRunning /\ Len(dArrived) = dExpected

\* The encrypter half of C20: an entry whose encryption succeeds is staged
\* although entries around it fail, and a key none of whose entries could
\* be encrypted is looked up as absent.
EncrypterIsolation ==
    /\ \A key \in Keys :
          (eRunning /\ GoodPending(key) /\ eStaged[key] = Absent)
              ~> (eStaged[key] # Absent \/ ~eRunning)
    /\ [](\A key \in Keys :
            key \notin eProcessed => Lookup(eStaged, key) = Absent)

----------------------------------------------------------------------------
\* Sync exchange: the order of the incoming documents.

\* The document and the two values return_doc_cb is to receive for the
\* entry e: its id and rev, its content after the decryption step, its gen
\* and its trans_id.
DocumentOf(e) ==
    [id |-> e.id, rev |-> e.rev,
     content |-> DecryptContent(e.id, e.content).content,
     gen |-> e.gen, trans_id |-> e.trans_id]

\* The entries of a well-formed stream: the data lines after the metadata.
EntriesOf(p) == [k \in 1..(Len(Data(p)) - 1) |-> Data(p)[k + 1].obj]

\* The number of entries before the first one that fails the decryption
\* step; all of them when none fails.
Deliverable(p) ==
    LET e == EntriesOf(p)
        bad == {k \in 1..Len(e) :
                   DecryptContent(e[k].id, e[k].content).exc # "none"}
    IN  IF bad = {} THEN Len(e)
        ELSE (CHOOSE k \in bad : \A j \in bad : k <= j) - 1

\* C21 as claimed: for every well-formed stream of a metadata line and the
\* entries e1..en the callback is invoked exactly n times, the k-th time
\* with the document and the gen and trans_id of ek.
C21_ExactlyNDeliveries ==
    (Terminal /\ GrammarOK(parts)) =>
        /\ Len(returned) = Len(EntriesOf(parts))
        /\ \A k \in 1..Len(returned) :
              returned[k] = DocumentOf(EntriesOf(parts)[k])

\* C21: for every well-formed stream of a metadata line and the entries
\* e1..en the callback is invoked once per entry in stream order, the k-th
\* time with the document built from ek's id, rev and content and with ek's
\* gen and trans_id, up to the first entry that fails the decryption step:
\* n times when every entry passes it, and otherwise only for the entries
\* before the failing one.  Each invocation is for the entry line the loop
\* stands at, so neither the metadata line nor the final line is handed
\* over.
C21_DeliveryOrder ==
    /\ [](GrammarOK(parts) =>
            /\ Len(returned) <= Deliverable(parts)
            /\ \A k \in 1..Len(returned) :
                  returned[k] = DocumentOf(EntriesOf(parts)[k])
            /\ Terminal => Len(returned) = Deliverable(parts)
            /\ pc = "complete" => Len(returned) = Len(EntriesOf(parts)))
    /\ [][(GrammarOK(parts) /\ returned' # returned) =>
            /\ pc = "parsing"
            /\ pos >= 2 /\ pos <= Len(Data(parts))
            /\ Len(returned) = pos - 2
            /\ returned' = Append(returned, DocumentOf(Data(parts)[pos].obj))
         ]_vars

\* Two entries were handed over in stream order, the first after its
\* envelope was decrypted, each with its own gen and trans_id.
C21_Witness ==
    /\ pc = "complete"
    /\ Len(parts) = 5
    /\ Len(returned) = 2
    /\ returned[1] = [id |-> "d1", rev |-> "r1",
                      content |-> PlainContent(Plain(2)), gen |-> 1,
                      trans_id |-> "t1"]
    /\ returned[2] = [id |-> "d2", rev |-> "r1", content |-> Tomb,
                      gen |-> 2, trans_id |-> "t2"]

----------------------------------------------------------------------------
\* Sync exchange: the content-length header.

\* The sum of the lengths of the pieces.
RECURSIVE SumLen(_)
SumLen(pieces) ==
    IF pieces = <<>> THEN 0
    ELSE PieceLen(Head(pieces)) + SumLen(Tail(pieces))

\* C22: for every list of local documents, syncable or not, tombstones or
\* not, the content-length header written for the request equals the sum
\* of the lengths of the pieces sent after it: '[', the metadata entry, one
\* entry for each syncable document and the closing piece; and while the
\* pieces are being prepared size is the sum of the lengths of those
\* prepared so far.
C22_ContentLength ==
    /\ pc = "sending" => size = SumLen(entries)
    /\ conn # NoConn =>
          /\ conn.content_length = SumLen(conn.sent)
          /\ conn.content_length = size
          /\ Len(conn.sent)
                = 3 + Len(SelectSeq(docs_by_generations, IsSyncable))
          /\ conn.sent[1] = OpenPiece
          /\ conn.sent[2] = EntryPiece(FALSE, RequestMeta(ensure))
          /\ \A k \in 3..(Len(conn.sent) - 1) :
                IsDocPiece(conn.sent[k]) /\ conn.sent[k].comma
          /\ Last(conn.sent) = ClosePiece

\* A request was sent for a non-syncable document followed by a syncable
\* tombstone: the header counts '[', the metadata entry, the entry of the
\* tombstone and the closing piece.
C22_Witness ==
    /\ pc = "await"
    /\ Len(docs_by_generations) = 2
    /\ Skips(docs_by_generations[1].doc)
    /\ ~Skips(docs_by_generations[2].doc)
    /\ is_tombstone(docs_by_generations[2].doc)
    /\ ensure
    /\ Len(conn.sent) = 4
    /\ conn.content_length = 1 + 76 + 59 + 3

====
